---- MODULE Spec2Model ----
(***************************************************************************)
(* VoleAI API (src/main.py): a read-only HTTP query layer over a hosted    *)
(* relational store.  The store's tables are changed only by an external   *)
(* ingestion process; every route handler issues one or more reads, each   *)
(* execute() being one atomic step, and answers with a status and a body.  *)
(*                                                                         *)
(* Spec     : all routes, one request in flight, ingestion interleaved.    *)
(* SpecH2H  : get_matches_head_to_head alone, over every small matches     *)
(*            table and every pair of requested slugs.                     *)
(***************************************************************************)
EXTENDS Integers, Sequences, FiniteSets

VARIABLES tables, route, args, pc, res1, res2, matches, wins1, wins2, idx, response

vars == <<tables, route, args, pc, res1, res2, matches, wins1, wins2, idx, response>>

(***************************************************************************)
(* Bounds of the model.                                                    *)
(***************************************************************************)
\* rows the matches table holds in SpecH2H
MaxMatches == 2
\* rows the whole store holds in Spec
MaxRows == 2

(***************************************************************************)
(* Values.                                                                 *)
(***************************************************************************)
\* JSON null / Python None in a nullable column or an optional parameter
NULL == -1

TOTAL_MATCHES == "total_matches"

\* day numbers standing for the dates of rows: an earlier and a later day
Dates == {1, 2}

TeamSlugs == {"a", "b", TOTAL_MATCHES}

\* winner_team as stored: a side (1, 2), null, or an integer that is no side
WinnerValues == {1, 2, 3, NULL}

\* a matches row as select("*") delivers it; KeyLess rows are rows of a table
\* that has no winner_team column
MatchRowsWithWinner ==
    [date : Dates, winner_team : WinnerValues, team1_slug : TeamSlugs,
     team2_slug : TeamSlugs, tournament_id : {1}]

MatchRowsKeyLess ==
    [date : Dates, team1_slug : TeamSlugs, team2_slug : TeamSlugs,
     tournament_id : {1}]

MatchRows == MatchRowsWithWinner \cup MatchRowsKeyLess

HasKey(m, k) == k \in DOMAIN m

(***************************************************************************)
(* The store's query operators (supabase client, PostgREST semantics).     *)
(***************************************************************************)
\* all enumerations of a finite set S as a sequence without repetition
Enumerations(S) ==
    {s \in [1..Cardinality(S) -> S] : \A i, j \in DOMAIN s : i # j => s[i] # s[j]}

\* .order(col, desc=True): any enumeration that is non-increasing in the key;
\* the store leaves the order of equal keys open
OrderDesc(S, col) ==
    {s \in Enumerations(S) : \A i, j \in DOMAIN s : i < j => s[i][col] >= s[j][col]}

\* .order(col, desc=False)
OrderAsc(S, col) ==
    {s \in Enumerations(S) : \A i, j \in DOMAIN s : i < j => s[i][col] <= s[j][col]}

\* .limit(n)
Limit(s, n) == SubSeq(s, 1, IF Len(s) < n THEN Len(s) ELSE n)

\* .filter("team1_slug","in",slugs).filter("team2_slug","in",slugs)
H2HFilter(tbl, pair1, pair2) ==
    {m \in tbl : m.team1_slug \in {pair1, pair2} /\ m.team2_slug \in {pair1, pair2}}

\* the query with desc=False: oldest match first
H2HQueryAscending(tbl, pair1, pair2) == OrderAsc(H2HFilter(tbl, pair1, pair2), "date")

\* the query of get_matches_head_to_head: filter, then order by date descending
H2HQuery(tbl, pair1, pair2) == OrderDesc(H2HFilter(tbl, pair1, pair2), "date")

(***************************************************************************)
(* get_matches_head_to_head: the tally.                                    *)
(***************************************************************************)
\* the loop body with the winning sides confused: at home side 2 scores for
\* pair1, away side 1 does
TallyStepSwapped(m, pair1, w) ==
    IF m.team1_slug = pair1
    THEN IF m.winner_team = 2 THEN <<w[1] + 1, w[2]>> ELSE <<w[1], w[2] + 1>>
    ELSE IF m.winner_team = 1 THEN <<w[1] + 1, w[2]>> ELSE <<w[1], w[2] + 1>>

\* the loop body without its last else: an away match that side 2 did not
\* win is counted for nobody
TallyStepSkipping(m, pair1, w) ==
    IF m.team1_slug = pair1
    THEN IF m.winner_team = 1 THEN <<w[1] + 1, w[2]>> ELSE <<w[1], w[2] + 1>>
    ELSE IF m.winner_team = 2 THEN <<w[1] + 1, w[2]>> ELSE w

\* one iteration of the loop body on match m with counters w = <<wins1, wins2>>
TallyStep(m, pair1, w) ==
    LET is_p1_home == m.team1_slug = pair1 IN
    IF is_p1_home
    THEN IF m.winner_team = 1 THEN <<w[1] + 1, w[2]>> ELSE <<w[1], w[2] + 1>>
    ELSE IF m.winner_team = 2 THEN <<w[1] + 1, w[2]>> ELSE <<w[1], w[2] + 1>>

\* the whole loop over a list whose rows all carry winner_team
RECURSIVE Tally(_, _, _)
Tally(ms, pair1, w) ==
    IF ms = <<>> THEN w ELSE Tally(Tail(ms), pair1, TallyStep(Head(ms), pair1, w))

\* a mapping in which the first of two equal keys keeps its value
DictLiteralFirstWins(k1, v1, k2, v2, k3, v3) ==
    [k \in {k1, k2, k3} |-> IF k = k1 THEN v1 ELSE IF k = k2 THEN v2 ELSE v3]

\* a Python dict display {k1: v1, k2: v2, k3: v3}: a later equal key overwrites
DictLiteral(k1, v1, k2, v2, k3, v3) ==
    [k \in {k1, k2, k3} |-> IF k = k3 THEN v3 ELSE IF k = k2 THEN v2 ELSE v1]

\* the "summary" mapping of the response
Summary(pair1, pair2, w, n) ==
    DictLiteral(pair1, w[1], pair2, w[2], TOTAL_MATCHES, n)

NoResponse == [status |-> 0, body |-> <<>>]

H2H == "get_matches_head_to_head"

get_matches_head_to_head_query ==
    /\ route = H2H /\ pc = "start"
    /\ matches' \in H2HQuery(tables.matches, args.pair1, args.pair2)
    /\ wins1' = 0 /\ wins2' = 0 /\ idx' = 0
    /\ pc' = "loop"
    /\ UNCHANGED <<tables, route, args, res1, res2, response>>

\* one iteration; m["winner_team"] on a row without the key raises KeyError,
\* which the framework answers with status 500
get_matches_head_to_head_loop ==
    /\ route = H2H /\ pc = "loop" /\ idx < Len(matches)
    /\ LET m == matches[idx + 1] IN
       IF HasKey(m, "winner_team")
       THEN LET w == TallyStep(m, args.pair1, <<wins1, wins2>>) IN
            /\ wins1' = w[1] /\ wins2' = w[2] /\ idx' = idx + 1
            /\ UNCHANGED <<pc, response>>
       ELSE /\ response' = [status |-> 500, body |-> <<>>]
            /\ pc' = "done"
            /\ UNCHANGED <<wins1, wins2, idx>>
    /\ UNCHANGED <<tables, route, args, res1, res2, matches>>

get_matches_head_to_head_return ==
    /\ route = H2H /\ pc = "loop" /\ idx = Len(matches)
    /\ response' = [status |-> 200,
                    body |-> [summary |-> Summary(args.pair1, args.pair2,
                                                  <<wins1, wins2>>, Len(matches)),
                              history |-> matches]]
    /\ pc' = "done"
    /\ UNCHANGED <<tables, route, args, res1, res2, matches, wins1, wins2, idx>>

EmptyTables ==
    [players |-> {}, dynamic_players |-> {}, dynamic_pairs |-> {},
     matches |-> {}, tournaments |-> {}]

\* the subsets of S with at most n elements
RECURSIVE SmallSubsets(_, _)
SmallSubsets(S, n) ==
    IF n = 0 THEN {{}}
    ELSE LET P == SmallSubsets(S, n - 1) IN P \cup {T \cup {x} : T \in P, x \in S}

InitH2H ==
    /\ \E tbl \in SmallSubsets(MatchRows, MaxMatches) :
          tables = [EmptyTables EXCEPT !.matches = tbl]
    /\ route = H2H
    /\ \E p1, p2 \in TeamSlugs : args = [pair1 |-> p1, pair2 |-> p2]
    /\ pc = "start"
    /\ res1 = <<>> /\ res2 = <<>> /\ matches = <<>>
    /\ wins1 = 0 /\ wins2 = 0 /\ idx = 0
    /\ response = NoResponse

NextH2H ==
    \/ get_matches_head_to_head_query
    \/ get_matches_head_to_head_loop
    \/ get_matches_head_to_head_return

SpecH2H == InitH2H /\ [][NextH2H]_vars

(***************************************************************************)
(* Strings that the code searches or rewrites are sequences of characters. *)
(***************************************************************************)
Lower(c) == CASE c = "A" -> "a" [] c = "B" -> "b" [] OTHER -> c

Upper(c) == CASE c = "a" -> "A" [] c = "b" -> "B" [] OTHER -> c

IsCased(c) == c \in {"a", "b", "A", "B"}

LowerStr(s) == [i \in DOMAIN s |-> Lower(s[i])]

Contains(s, q) ==
    \E k \in 0..(Len(s) - Len(q)) : SubSeq(s, k + 1, k + Len(q)) = q

\* column ILIKE '%q%'
ILike(s, q) == Contains(LowerStr(s), LowerStr(q))

\* str.replace(old, new): left to right, without overlap
RECURSIVE Replace(_, _, _)
Replace(s, old, new) ==
    IF Len(s) < Len(old) \/ s = <<>> THEN s
    ELSE IF SubSeq(s, 1, Len(old)) = old
         THEN new \o Replace(SubSeq(s, Len(old) + 1, Len(s)), old, new)
         ELSE <<Head(s)>> \o Replace(Tail(s), old, new)

\* str.title(): a cased character is upper case after an uncased one or at
\* the start, lower case otherwise
Title(s) ==
    [i \in DOMAIN s |->
        IF i = 1 \/ ~IsCased(s[i - 1]) THEN Upper(s[i]) ELSE Lower(s[i])]

\* the label global_search gives a pair slug
PairLabel(pair_slug) ==
    Title(Replace(Replace(pair_slug, <<"-", "-">>, <<" ", "/", " ">>),
                  <<"-">>, <<" ">>))

Digits == <<"0", "1", "2", "3", "4", "5", "6", "7", "8", "9">>

\* str(n) of a natural number
RECURSIVE Str(_)
Str(n) == IF n < 10 THEN <<Digits[n + 1]>> ELSE Str(n \div 10) \o <<Digits[(n % 10) + 1]>>

(***************************************************************************)
(* The rows ingestion writes.                                              *)
(***************************************************************************)
PlayerSlugs == {"x", "y"}

PairSlugs == {<<"a", "-", "b", "-", "-", "a">>, <<"b", "-", "-", "a">>}

PlayerRows ==
    {[slug |-> "x", name |-> <<"A", "b">>], [slug |-> "y", name |-> <<"B">>]}

\* a snapshot row either kept its points or gained one
DynPlayerRows ==
    {r \in [slug : PlayerSlugs, snapshot_date : Dates, points : {1, 2},
            points_change : {0, 1}] : r.points_change = r.points - 1}

\* the shorter pair slug is the pair with more points
DynPairRows ==
    {r \in [pair_slug : PairSlugs, snapshot_date : Dates, points : {1, 2},
            player1_slug : {"x"}, player2_slug : {"y"}] :
        r.points = (IF Len(r.pair_slug) = 4 THEN 2 ELSE 1)}

\* matches between the teams "a" and "b" that side 1 won
DecidedMatchRows ==
    {m \in MatchRowsWithWinner :
        /\ {m.team1_slug, m.team2_slug} = {"a", "b"}
        /\ m.winner_team = 1}

\* start_date is a date numbered year-month-day: 2024-12-31 and 2025-01-01
TournamentRows ==
    [tournaments_id : {1}, full_name : {<<"A">>},
     start_date : {20241231, 20250101}]

TableNames == {"players", "dynamic_players", "dynamic_pairs", "matches", "tournaments"}

IngestRows ==
    [players |-> PlayerRows, dynamic_players |-> DynPlayerRows,
     dynamic_pairs |-> DynPairRows, matches |-> DecidedMatchRows,
     tournaments |-> TournamentRows]

RowCount(t) ==
    Cardinality(t.players) + Cardinality(t.dynamic_players)
    + Cardinality(t.dynamic_pairs) + Cardinality(t.matches)
    + Cardinality(t.tournaments)

(***************************************************************************)
(* Queries shared by the routes.                                           *)
(***************************************************************************)
\* .select("snapshot_date"): the rows cut to that column
SelectSnapshotDate(s) == [i \in DOMAIN s |-> [snapshot_date |-> s[i].snapshot_date]]

\* select("snapshot_date").order("snapshot_date", desc=True).limit(1)
LatestSnapshot(tbl) ==
    {SelectSnapshotDate(Limit(s, 1)) : s \in OrderDesc(tbl, "snapshot_date")}

\* the embedded resource players(*) of a row: the players rows of that slug
EmbedPlayer(t, slug) == {p \in t.players : p.slug = slug}

WithPlayers(t, r) ==
    [slug |-> r.slug, snapshot_date |-> r.snapshot_date, points |-> r.points,
     points_change |-> r.points_change, players |-> EmbedPlayer(t, r.slug)]

WithPairPlayers(t, r) ==
    [pair_slug |-> r.pair_slug, snapshot_date |-> r.snapshot_date,
     points |-> r.points, player1_slug |-> r.player1_slug,
     player2_slug |-> r.player2_slug,
     player1 |-> EmbedPlayer(t, r.player1_slug),
     player2 |-> EmbedPlayer(t, r.player2_slug)]

\* the second read without .eq("snapshot_date", latest_date)
RankedUnfiltered(tbl, latest_date, limit) ==
    {Limit(s, limit) : s \in OrderDesc(tbl, "points")}

\* .eq("snapshot_date", latest_date).order("points", desc=True).limit(limit)
Ranked(tbl, latest_date, limit) ==
    {Limit(s, limit) :
        s \in OrderDesc({r \in tbl : r.snapshot_date = latest_date}, "points")}

\* .eq("slug", slug).order("snapshot_date", desc=True).limit(1) on dynamic_players
LatestOfPlayer(t, slug) ==
    {Limit(s, 1) :
        s \in OrderDesc({r \in t.dynamic_players : r.slug = slug}, "snapshot_date")}

\* .eq("pair_slug", slug).order("snapshot_date", desc=True).limit(1) on dynamic_pairs
LatestOfPair(t, slug) ==
    {Limit(s, 1) :
        s \in OrderDesc({r \in t.dynamic_pairs : r.pair_slug = slug}, "snapshot_date")}

\* the date year-month-day as a number that orders as dates do
IsoDate(year, month, day) == year * 10000 + month * 100 + day

\* .range(from, to): the rows at offsets from..to
Range(s, from, to) == SubSeq(s, from + 1, IF to + 1 < Len(s) THEN to + 1 ELSE Len(s))

(***************************************************************************)
(* The request in flight.                                                  *)
(***************************************************************************)
Respond(status, body) ==
    /\ response' = [status |-> status, body |-> body]
    /\ pc' = "done"

AggregatorIdle == UNCHANGED <<matches, wins1, wins2, idx>>

\* a step of a handler that is not get_matches_head_to_head
Frame == UNCHANGED <<tables, route, args>> /\ AggregatorIdle

\* ---- General ----
home ==
    /\ route = "home" /\ pc = "start"
    /\ Respond(200, [message |-> "VoleAI API", docs |-> "/docs"])
    /\ UNCHANGED <<res1, res2>> /\ Frame

\* ---- Players ----
get_players ==
    /\ route = "get_players" /\ pc = "start"
    /\ LET rows == IF args.search # <<>>
                   THEN {p \in tables.players : ILike(p.name, args.search)}
                   ELSE tables.players
       IN  \E s \in Enumerations(rows) :
              /\ res1' = Range(s, args.skip, args.skip + args.limit - 1)
              /\ Respond(200, res1')
    /\ UNCHANGED res2 /\ Frame

\* the first read without "if not latest.data": latest.data[0] on an empty
\* list raises IndexError, answered with status 500
get_players_ranking_latest_unchecked ==
    /\ route = "get_players_ranking" /\ pc = "start"
    /\ res1' \in LatestSnapshot(tables.dynamic_players)
    /\ IF res1' = <<>> THEN Respond(500, "IndexError")
       ELSE pc' = "second" /\ UNCHANGED response
    /\ UNCHANGED res2 /\ Frame

get_players_ranking_latest ==
    /\ route = "get_players_ranking" /\ pc = "start"
    /\ res1' \in LatestSnapshot(tables.dynamic_players)
    /\ IF res1' = <<>> THEN Respond(200, <<>>)
       ELSE pc' = "second" /\ UNCHANGED response
    /\ UNCHANGED res2 /\ Frame

get_players_ranking_rows ==
    /\ route = "get_players_ranking" /\ pc = "second"
    /\ LET latest_date == res1[1].snapshot_date IN
       \E s \in Ranked(tables.dynamic_players, latest_date, args.limit) :
          /\ res2' = [i \in DOMAIN s |-> WithPlayers(tables, s[i])]
          /\ Respond(200, res2')
    /\ UNCHANGED res1 /\ Frame

get_players_head_to_head_p1 ==
    /\ route = "get_players_head_to_head" /\ pc = "start"
    /\ \E s \in LatestOfPlayer(tables, args.player1) :
          res1' = [i \in DOMAIN s |-> WithPlayers(tables, s[i])]
    /\ pc' = "second"
    /\ UNCHANGED <<res2, response>> /\ Frame

get_players_head_to_head_p2 ==
    /\ route = "get_players_head_to_head" /\ pc = "second"
    /\ \E s \in LatestOfPlayer(tables, args.player2) :
          res2' = [i \in DOMAIN s |-> WithPlayers(tables, s[i])]
    /\ IF res1 = <<>> THEN Respond(404, "Player 1 not found")
       ELSE IF res2' = <<>> THEN Respond(404, "Player 2 not found")
       ELSE Respond(200, [player1 |-> res1[1], player2 |-> res2'[1]])
    /\ UNCHANGED res1 /\ Frame

get_player_evolution_check ==
    /\ route = "get_player_evolution" /\ pc = "start"
    /\ \E s \in Enumerations({p \in tables.players : p.slug = args.slug}) :
          res1' = [i \in DOMAIN s |-> [slug |-> s[i].slug]]
    /\ IF res1' = <<>> THEN Respond(404, "Player not found")
       ELSE pc' = "second" /\ UNCHANGED response
    /\ UNCHANGED res2 /\ Frame

get_player_evolution_rows ==
    /\ route = "get_player_evolution" /\ pc = "second"
    /\ res2' \in OrderAsc({r \in tables.dynamic_players : r.slug = args.slug}, "snapshot_date")
    /\ Respond(200, res2')
    /\ UNCHANGED res1 /\ Frame

get_player_profile_player ==
    /\ route = "get_player_profile" /\ pc = "start"
    /\ res1' \in Enumerations({p \in tables.players : p.slug = args.slug})
    /\ IF res1' = <<>> THEN Respond(404, "Player not found")
       ELSE pc' = "second" /\ UNCHANGED response
    /\ UNCHANGED res2 /\ Frame

get_player_profile_stats ==
    /\ route = "get_player_profile" /\ pc = "second"
    /\ res2' \in LatestOfPlayer(tables, args.slug)
    /\ Respond(200, [profile |-> res1[1],
                     current_stats |-> IF res2' # <<>> THEN res2'[1] ELSE NULL])
    /\ UNCHANGED res1 /\ Frame

\* ---- Pairs ----
get_pairs_ranking_latest ==
    /\ route = "get_pairs_ranking" /\ pc = "start"
    /\ res1' \in LatestSnapshot(tables.dynamic_pairs)
    /\ IF res1' = <<>> THEN Respond(200, <<>>)
       ELSE pc' = "second" /\ UNCHANGED response
    /\ UNCHANGED res2 /\ Frame

get_pairs_ranking_rows ==
    /\ route = "get_pairs_ranking" /\ pc = "second"
    /\ LET latest_date == res1[1].snapshot_date IN
       \E s \in Ranked(tables.dynamic_pairs, latest_date, args.limit) :
          /\ res2' = [i \in DOMAIN s |-> WithPairPlayers(tables, s[i])]
          /\ Respond(200, res2')
    /\ UNCHANGED res1 /\ Frame

get_pairs_head_to_head_p1 ==
    /\ route = "get_pairs_head_to_head" /\ pc = "start"
    /\ \E s \in LatestOfPair(tables, args.slug1) :
          res1' = [i \in DOMAIN s |-> WithPairPlayers(tables, s[i])]
    /\ pc' = "second"
    /\ UNCHANGED <<res2, response>> /\ Frame

get_pairs_head_to_head_p2 ==
    /\ route = "get_pairs_head_to_head" /\ pc = "second"
    /\ \E s \in LatestOfPair(tables, args.slug2) :
          res2' = [i \in DOMAIN s |-> WithPairPlayers(tables, s[i])]
    /\ IF res1 = <<>> THEN Respond(404, "Pair 1 not found")
       ELSE IF res2' = <<>> THEN Respond(404, "Pair 2 not found")
       ELSE Respond(200, [snapshot_date |-> res1[1].snapshot_date,
                          pair1 |-> res1[1], pair2 |-> res2'[1]])
    /\ UNCHANGED res1 /\ Frame

get_pair_evolution ==
    /\ route = "get_pair_evolution" /\ pc = "start"
    /\ res1' \in OrderAsc({r \in tables.dynamic_pairs : r.pair_slug = args.pair_slug}, "snapshot_date")
    /\ Respond(200, res1')
    /\ UNCHANGED res2 /\ Frame

get_pair_profile_latest ==
    /\ route = "get_pair_profile" /\ pc = "start"
    /\ res1' \in LatestSnapshot(tables.dynamic_pairs)
    /\ IF res1' = <<>> THEN Respond(404, "No pairs data")
       ELSE pc' = "second" /\ UNCHANGED response
    /\ UNCHANGED res2 /\ Frame

get_pair_profile_rows ==
    /\ route = "get_pair_profile" /\ pc = "second"
    /\ LET latest_date == res1[1].snapshot_date IN
       \E s \in Enumerations({r \in tables.dynamic_pairs :
                                 /\ r.pair_slug = args.pair_slug
                                 /\ r.snapshot_date = latest_date}) :
          res2' = [i \in DOMAIN s |-> WithPairPlayers(tables, s[i])]
    /\ IF res2' = <<>> THEN Respond(404, "Pair not found")
       ELSE Respond(200, res2'[1])
    /\ UNCHANGED res1 /\ Frame

\* ---- Matches ----
\* a handler that calls .delete() where the code calls .select("*")
get_matches_deleting ==
    /\ route = "get_matches" /\ pc = "start"
    /\ res1' = <<>>
    /\ tables' = [tables EXCEPT !.matches = {}]
    /\ Respond(200, res1')
    /\ UNCHANGED <<res2, route, args>> /\ AggregatorIdle

get_matches ==
    /\ route = "get_matches" /\ pc = "start"
    /\ LET rows == {m \in tables.matches :
                      /\ args.tournament_id # NULL => m.tournament_id = args.tournament_id
                      /\ args.date_from # NULL => m.date >= args.date_from}
       IN  \E s \in OrderDesc(rows, "date") :
              /\ res1' = Limit(s, args.limit)
              /\ Respond(200, res1')
    /\ UNCHANGED res2 /\ Frame

\* ---- Tournaments ----
get_tournaments ==
    /\ route = "get_tournaments" /\ pc = "start"
    /\ res1' \in OrderAsc({t \in tables.tournaments :
                             /\ t.start_date >= IsoDate(args.year, 1, 1)
                             /\ t.start_date <= IsoDate(args.year, 12, 31)},
                          "start_date")
    /\ Respond(200, res1')
    /\ UNCHANGED res2 /\ Frame

\* ---- Analytics ----
TrendingLimit == 10

get_trending_players_latest ==
    /\ route = "get_trending_players" /\ pc = "start"
    /\ res1' \in LatestSnapshot(tables.dynamic_players)
    /\ IF res1' = <<>> THEN Respond(200, <<>>)
       ELSE pc' = "second" /\ UNCHANGED response
    /\ UNCHANGED res2 /\ Frame

\* .eq("snapshot_date", target_date).gt("points_change", 0)
\* .order("points_change", desc=True).limit(10)
Trending(tbl, target_date) ==
    {Limit(s, TrendingLimit) :
        s \in OrderDesc({r \in tbl : r.snapshot_date = target_date /\ r.points_change > 0}, "points_change")}

get_trending_players_rows ==
    /\ route = "get_trending_players" /\ pc = "second"
    /\ LET target_date == res1[1].snapshot_date IN
       res2' \in Trending(tables.dynamic_players, target_date)
    /\ Respond(200, res2')
    /\ UNCHANGED res1 /\ Frame

SearchPlayersLimit == 5

SearchPairsLimit == 5

SearchTournamentsLimit == 3

\* global_search keeps its growing results list in res1
global_search_players ==
    /\ route = "global_search" /\ pc = "start"
    /\ \E s \in Enumerations({p \in tables.players : ILike(p.name, args.q)}) :
          res1' = [i \in DOMAIN Limit(s, SearchPlayersLimit) |->
                      [type |-> "player", slug |-> s[i].slug, label |-> s[i].name]]
    /\ pc' = "pairs"
    /\ UNCHANGED <<res2, response>> /\ Frame

global_search_pairs ==
    /\ route = "global_search" /\ pc = "pairs"
    /\ \E s \in Enumerations({r \in tables.dynamic_pairs : ILike(r.pair_slug, args.q)}) :
          res1' = res1 \o
                  [i \in DOMAIN Limit(s, SearchPairsLimit) |->
                      [type |-> "pair_slug", slug |-> s[i].pair_slug,
                       label |-> PairLabel(s[i].pair_slug)]]
    /\ pc' = "tournaments"
    /\ UNCHANGED <<res2, response>> /\ Frame

global_search_tournaments ==
    /\ route = "global_search" /\ pc = "tournaments"
    /\ \E s \in Enumerations({t \in tables.tournaments : ILike(t.full_name, args.q)}) :
          res1' = res1 \o
                  [i \in DOMAIN Limit(s, SearchTournamentsLimit) |->
                      [type |-> "tournament", id |-> Str(s[i].tournaments_id),
                       label |-> s[i].full_name]]
    /\ Respond(200, res1')
    /\ UNCHANGED res2 /\ Frame

(***************************************************************************)
(* Requests and ingestion.                                                 *)
(***************************************************************************)
Limits == {1, 2}

\* every request the model issues: a route with its parameters
Requests ==
    {[route |-> "home", args |-> [none |-> NULL]]}
    \cup {[route |-> "get_players", args |-> [skip |-> k, limit |-> 1, search |-> q]] :
             k \in {0, 1}, q \in {<<>>, <<"b">>}}
    \cup {[route |-> r, args |-> [limit |-> n]] :
             r \in {"get_players_ranking", "get_pairs_ranking"}, n \in Limits}
    \cup {[route |-> "get_players_head_to_head", args |-> [player1 |-> "x", player2 |-> "y"]]}
    \cup {[route |-> r, args |-> [slug |-> a]] :
             r \in {"get_player_evolution", "get_player_profile"}, a \in PlayerSlugs}
    \cup {rq \in {[route |-> "get_pairs_head_to_head", args |-> [slug1 |-> a, slug2 |-> b]] :
                      a \in PairSlugs, b \in PairSlugs} : rq.args.slug1 # rq.args.slug2}
    \cup {[route |-> r, args |-> [pair_slug |-> a]] :
             r \in {"get_pair_evolution", "get_pair_profile"}, a \in PairSlugs}
    \cup {[route |-> "get_matches", args |-> [limit |-> 1, tournament_id |-> t, date_from |-> d]] :
             t \in {NULL, 1}, d \in {NULL, 2}}
    \cup {[route |-> H2H, args |-> [pair1 |-> "a", pair2 |-> "b"]]}
    \cup {[route |-> "get_tournaments", args |-> [year |-> y]] : y \in {2024, 2025}}
    \cup {[route |-> "get_trending_players", args |-> [none |-> NULL]]}
    \cup {[route |-> "global_search", args |-> [q |-> q]] : q \in {<<"a">>, <<"B">>}}

\* a request arrives when no handler is running
Start ==
    /\ pc = "idle"
    /\ \E rq \in Requests : route' = rq.route /\ args' = rq.args
    /\ pc' = "start"
    /\ UNCHANGED <<tables, res1, res2, matches, wins1, wins2, idx, response>>

\* the response is sent and the handler's frame is gone
Finish ==
    /\ pc = "done"
    /\ pc' = "idle"
    /\ route' = "none" /\ args' = [none |-> NULL]
    /\ res1' = <<>> /\ res2' = <<>> /\ matches' = <<>>
    /\ wins1' = 0 /\ wins2' = 0 /\ idx' = 0
    /\ response' = NoResponse
    /\ UNCHANGED tables

\* the external ingestion process inserts or deletes a row of some table:
\* while no request is running and between any two steps of a running handler
\* (a response already produced no longer depends on the store)
Ingest ==
    /\ pc # "done"
    /\ \E t \in TableNames : \E r \in IngestRows[t] :
          \/ /\ r \notin tables[t]
             /\ RowCount(tables) < MaxRows
             /\ tables' = [tables EXCEPT ![t] = @ \cup {r}]
          \/ /\ r \in tables[t]
             /\ tables' = [tables EXCEPT ![t] = @ \ {r}]
    /\ UNCHANGED <<route, args, pc, res1, res2, matches, wins1, wins2, idx, response>>

Handler ==
    \/ home
    \/ get_players
    \/ get_players_ranking_latest
    \/ get_players_ranking_rows
    \/ get_players_head_to_head_p1
    \/ get_players_head_to_head_p2
    \/ get_player_evolution_check
    \/ get_player_evolution_rows
    \/ get_player_profile_player
    \/ get_player_profile_stats
    \/ get_pairs_ranking_latest
    \/ get_pairs_ranking_rows
    \/ get_pairs_head_to_head_p1
    \/ get_pairs_head_to_head_p2
    \/ get_pair_evolution
    \/ get_pair_profile_latest
    \/ get_pair_profile_rows
    \/ get_matches
    \/ get_matches_head_to_head_query
    \/ get_matches_head_to_head_loop
    \/ get_matches_head_to_head_return
    \/ get_tournaments
    \/ get_trending_players_latest
    \/ get_trending_players_rows
    \/ global_search_players
    \/ global_search_pairs
    \/ global_search_tournaments

Init ==
    /\ tables = EmptyTables
    /\ route = "none" /\ args = [none |-> NULL]
    /\ pc = "idle"
    /\ res1 = <<>> /\ res2 = <<>> /\ matches = <<>>
    /\ wins1 = 0 /\ wins2 = 0 /\ idx = 0
    /\ response = NoResponse

Next == Start \/ Ingest \/ Handler \/ Finish

Spec == Init /\ [][Next]_vars

(***************************************************************************)
(* Claims about get_matches_head_to_head (checked under SpecH2H).          *)
(***************************************************************************)
H2HDone == route = H2H /\ pc = "done"

H2HReturned == H2HDone /\ response.status = 200

\* the three keys of the summary display are pairwise different
DistinctKeys ==
    args.pair1 # args.pair2 /\ TOTAL_MATCHES \notin {args.pair1, args.pair2}

\* the reference tally of A's wins, counted over the positions of the list
RefWinsA(ms, A) ==
    Cardinality({i \in DOMAIN ms :
        \/ ms[i].team1_slug = A /\ ms[i].winner_team = 1
        \/ ms[i].team1_slug # A /\ ms[i].winner_team = 2})

\* the response's summary carries the reference tally of the fetched list
SummaryIsReference ==
    LET s == response.body.summary IN
    /\ matches \in H2HQuery(tables.matches, args.pair1, args.pair2)
    /\ s[args.pair1] = RefWinsA(matches, args.pair1)
    /\ s[args.pair2] = Len(matches) - RefWinsA(matches, args.pair1)
    /\ s[TOTAL_MATCHES] = Len(matches)

\* C1 as stated: for every requested pair of slugs and every fetched match
\* list, a returned result carries the reference tally: A's entry is the number
\* of matches A won, B's entry the number of all other matches, total_matches
\* the length of the list.
C1_TallyEqualsReference_AllSlugs == H2HReturned => SummaryIsReference

\* C1 amended: the same, for requested slugs that differ from each other and
\* from the key "total_matches".
C1_TallyEqualsReference == H2HReturned /\ DistinctKeys => SummaryIsReference

\* C1 witness: a returned two-match tally where A won once as team 2 and B once
C1_Witness ==
    /\ H2HReturned /\ DistinctKeys /\ Len(matches) = 2
    /\ \E i \in DOMAIN matches :
          matches[i].team1_slug # args.pair1 /\ matches[i].winner_team = 2
    /\ response.body.summary[args.pair1] = 1
    /\ response.body.summary[args.pair2] = 1

\* every match of the fetched list is between exactly the two requested slugs
AllExactlyAB ==
    \A i \in DOMAIN matches :
        {matches[i].team1_slug, matches[i].team2_slug} = {args.pair1, args.pair2}

LoopInvariant == route = H2H /\ pc = "loop" => wins1 + wins2 = idx

SummaryAddsUp ==
    LET s == response.body.summary IN
    s[args.pair1] + s[args.pair2] = s[TOTAL_MATCHES]

\* C2 as stated: at every loop iteration wins1 + wins2 is the number of matches
\* processed so far, and when every match is between exactly {A, B} the
\* returned win counts of A and B add up to total_matches.
C2_WinsAddUp_AllSlugs ==
    /\ LoopInvariant
    /\ H2HReturned /\ AllExactlyAB => SummaryAddsUp

\* C2 amended: the same, for requested slugs that differ from each other and
\* from the key "total_matches".
C2_WinsAddUp ==
    /\ LoopInvariant
    /\ H2HReturned /\ AllExactlyAB /\ DistinctKeys => SummaryAddsUp

\* C2 witness: a returned result over two matches between A and B, one win each
C2_Witness ==
    /\ H2HReturned /\ AllExactlyAB /\ DistinctKeys
    /\ Len(matches) = 2 /\ wins1 = 1 /\ wins2 = 1

\* the summary the handler computes for (A, B) and for (B, A) over one list
\* gives A the same count, B the same count, and the same total
SwapSymmetric(ms, A, B) ==
    LET ab == Summary(A, B, Tally(ms, A, <<0, 0>>), Len(ms))
        ba == Summary(B, A, Tally(ms, B, <<0, 0>>), Len(ms))
    IN  /\ ab[A] = ba[A]
        /\ ab[B] = ba[B]
        /\ ab[TOTAL_MATCHES] = ba[TOTAL_MATCHES]

\* every match of the fetched list names side 1 or side 2 as its winner
AllWinnersAreSides ==
    \A i \in DOMAIN matches : matches[i].winner_team \in {1, 2}

\* the returned summary is the one the loop computes for (pair1, pair2), and
\* the request with the slugs swapped fetches the same list
ReturnedIsTally ==
    /\ response.body.summary =
          Summary(args.pair1, args.pair2, Tally(matches, args.pair1, <<0, 0>>),
                  Len(matches))
    /\ matches \in H2HQuery(tables.matches, args.pair2, args.pair1)

\* C3 as stated: for every match list and every two slugs, the calls (A, B) and
\* (B, A) give the same count for A, the same count for B and the same total.
C3_SwapSymmetry_AllLists ==
    H2HReturned =>
        ReturnedIsTally /\ SwapSymmetric(matches, args.pair1, args.pair2)

\* C3 amended: the same, for every fetched match list (team1_slug is A or B)
\* in which every winner_team is 1 or 2.
C3_SwapSymmetry ==
    H2HReturned /\ AllWinnersAreSides =>
        ReturnedIsTally /\ SwapSymmetric(matches, args.pair1, args.pair2)

\* C3 witness: a returned result over two decided matches, A at home in one and
\* away in the other, with unequal counts
C3_Witness ==
    /\ H2HReturned /\ AllWinnersAreSides /\ DistinctKeys /\ Len(matches) = 2
    /\ matches[1].team1_slug = args.pair1 /\ matches[2].team1_slug = args.pair2
    /\ wins1 = 2 /\ wins2 = 0

\* C4 as stated: the aggregation raises no error for any fetched list; in
\* particular a match whose winner_team field is missing, null or outside
\* {1, 2} still gives a result, and no match gives zero counts and an empty
\* history.
C4_NoError ==
    H2HDone =>
        /\ response.status = 200
        /\ Len(matches) = 0 =>
              /\ response.body.summary[args.pair1] = 0
              /\ response.body.summary[args.pair2] = 0
              /\ response.body.summary[TOTAL_MATCHES] = 0
              /\ response.body.history = <<>>

\* C5: the returned history is the fetched list itself: every row the store
\* holds for the two slugs, once, most recent first; and no loop iteration
\* changes the list or any field of its rows.
C5_HistoryUnmodified ==
    [][ /\ get_matches_head_to_head_return =>
              LET h == response'.body.history IN
              /\ h = matches
              /\ Len(h) = Cardinality(H2HFilter(tables.matches, args.pair1, args.pair2))
              /\ {h[i] : i \in DOMAIN h} =
                     H2HFilter(tables.matches, args.pair1, args.pair2)
              /\ \A i, j \in DOMAIN h : i < j => h[i].date >= h[j].date
        /\ get_matches_head_to_head_loop => matches' = matches ]_vars

\* C5 witness: a returned history of two matches of different dates
C5_Witness ==
    /\ H2HReturned /\ Len(response.body.history) = 2
    /\ response.body.history[1].date > response.body.history[2].date

\* the number of fetched matches whose winner_team is not 1
CountWinnerNot1 ==
    Cardinality({i \in DOMAIN matches : matches[i].winner_team # 1})

ThreeEntries ==
    LET s == response.body.summary IN
    /\ Cardinality(DOMAIN s) = 3
    /\ s[args.pair1] = wins1 /\ s[args.pair2] = wins2
    /\ s[TOTAL_MATCHES] = Len(matches)

\* C9 as stated: when pair1 = pair2 the summary holds a single slug entry, its
\* value is wins2 (the matches with winner_team # 1), and the slug entries do
\* not add up to total_matches; for distinct slugs other than "total_matches"
\* the summary has exactly three entries.
C9_KeyCollision_AsStated ==
    /\ H2HReturned /\ args.pair1 = args.pair2 =>
          LET s == response.body.summary IN
          /\ Cardinality(DOMAIN s \ {TOTAL_MATCHES}) = 1
          /\ s[args.pair1] = wins2
          /\ wins2 = CountWinnerNot1
          /\ s[args.pair1] # s[TOTAL_MATCHES]
    /\ H2HReturned /\ DistinctKeys => ThreeEntries

\* C9 amended: when pair1 = pair2 is not "total_matches" the summary holds that
\* slug and total_matches only, the slug's value is wins2 (the matches with
\* winner_team # 1), and it falls short of total_matches by exactly the dropped
\* wins1; a slug equal to "total_matches" holds the match count instead of its
\* win count; for distinct slugs other than "total_matches" the summary has
\* exactly three entries.
C9_KeyCollision ==
    /\ H2HReturned /\ args.pair1 = args.pair2 /\ args.pair1 # TOTAL_MATCHES =>
          LET s == response.body.summary IN
          /\ DOMAIN s = {args.pair1, TOTAL_MATCHES}
          /\ s[args.pair1] = wins2
          /\ wins2 = CountWinnerNot1
          /\ s[args.pair1] = s[TOTAL_MATCHES] - wins1
    /\ H2HReturned /\ TOTAL_MATCHES \in {args.pair1, args.pair2} =>
          LET s == response.body.summary IN
          /\ DOMAIN s = {args.pair1, args.pair2}
          /\ s[TOTAL_MATCHES] = Len(matches)
    /\ H2HReturned /\ DistinctKeys => ThreeEntries

\* C9 witness: a request of one slug against itself whose dropped wins1 is not 0
C9_Witness ==
    /\ H2HReturned /\ args.pair1 = args.pair2 /\ args.pair1 # TOTAL_MATCHES
    /\ wins1 > 0 /\ wins2 > 0
    /\ response.body.summary[args.pair1] # response.body.summary[TOTAL_MATCHES]

(***************************************************************************)
(* Claims about the routes and the store (checked under Spec).             *)
(***************************************************************************)
\* C6: the system only reads: every step that changes the contents of a table
\* is a step of the external ingestion process, never a step of a handler.
C6_ReadOnly == [][tables' # tables => Ingest]_vars

\* C6 witness: a request answered with rows of a populated store
C6_Witness ==
    /\ pc = "done" /\ route = "get_matches"
    /\ response.status = 200 /\ response.body # <<>>
    /\ tables.matches # {}

NoPlayerRow(slug) == ~ \E p \in tables.players : p.slug = slug

NoDynPlayerRow(slug) == ~ \E r \in tables.dynamic_players : r.slug = slug

NoPairRow(slug) == ~ \E r \in tables.dynamic_pairs : r.pair_slug = slug

NotFound == response'.status = 404 /\ pc' = "done"

\* C7 as stated: each route that looks a player or a pair up by slug answers
\* 404, and never with success, when the read that looks the slug up finds no
\* record of it in the store.
C7_MissingGives404 ==
    [][ /\ get_player_profile_player /\ NoPlayerRow(args.slug) => NotFound
        /\ get_player_evolution_check /\ NoPlayerRow(args.slug) => NotFound
        /\ get_players_head_to_head_p1 /\ NoDynPlayerRow(args.player1) => res1' = <<>>
        /\ get_players_head_to_head_p2
              /\ (res1 = <<>> \/ NoDynPlayerRow(args.player2)) => NotFound
        /\ get_pairs_head_to_head_p1 /\ NoPairRow(args.slug1) => res1' = <<>>
        /\ get_pairs_head_to_head_p2
              /\ (res1 = <<>> \/ NoPairRow(args.slug2)) => NotFound
        /\ get_pair_profile_latest /\ tables.dynamic_pairs = {} => NotFound
        /\ get_pair_profile_rows /\ NoPairRow(args.pair_slug) => NotFound
        /\ get_pair_evolution /\ NoPairRow(args.pair_slug) => NotFound ]_vars

\* the handler answers with success and an empty list, and is finished
EmptyResult == response' = [status |-> 200, body |-> <<>>] /\ pc' = "done"

RankingRoutesEmpty ==
    /\ get_players_ranking_latest /\ tables.dynamic_players = {} => EmptyResult
    /\ get_pairs_ranking_latest /\ tables.dynamic_pairs = {} => EmptyResult
    /\ get_trending_players_latest /\ tables.dynamic_players = {} => EmptyResult

\* C8 as stated: each of get_players_ranking, get_pairs_ranking,
\* get_trending_players and get_pair_profile, when the snapshot table it reads
\* has no rows, answers with an empty result and not an error, and issues no
\* second query.
C8_EmptySnapshot_AsStated ==
    [][ /\ RankingRoutesEmpty
        /\ get_pair_profile_latest /\ tables.dynamic_pairs = {} => EmptyResult ]_vars

\* C8 amended: get_players_ranking, get_pairs_ranking and get_trending_players
\* answer an empty snapshot table with an empty result; get_pair_profile
\* answers it with a 404 error; none of the four issues its second query.
C8_EmptySnapshot ==
    [][ /\ RankingRoutesEmpty
        /\ get_pair_profile_latest /\ tables.dynamic_pairs = {} => NotFound ]_vars

\* C8 witness: a ranking answered empty while other tables hold rows
C8_Witness ==
    /\ pc = "done" /\ route = "get_players_ranking"
    /\ tables.dynamic_players = {} /\ tables.players # {}
    /\ response = [status |-> 200, body |-> <<>>]

MaxSnapshotDate(tbl) ==
    CHOOSE d \in {r.snapshot_date : r \in tbl} : \A r \in tbl : r.snapshot_date <= d

\* C10: whatever ingestion does between the two reads of a ranking route, the
\* first read yields the largest snapshot_date the table holds at that moment
\* and every row of the response carries exactly that date.
C10_SingleSnapshot ==
    [][ /\ (get_players_ranking_latest \/ get_trending_players_latest)
              /\ tables.dynamic_players # {} =>
                 res1' = <<[snapshot_date |-> MaxSnapshotDate(tables.dynamic_players)]>>
        /\ get_pairs_ranking_latest /\ tables.dynamic_pairs # {} =>
                 res1' = <<[snapshot_date |-> MaxSnapshotDate(tables.dynamic_pairs)]>>
        /\ (get_players_ranking_rows \/ get_pairs_ranking_rows
              \/ get_trending_players_rows) =>
                 \A i \in DOMAIN response'.body :
                    response'.body[i].snapshot_date = res1[1].snapshot_date ]_vars

\* C10 witness: a ranking of an older snapshot, answered after a newer snapshot
\* was inserted between the two reads
C10_Witness ==
    /\ pc = "done" /\ route = "get_players_ranking"
    /\ response.status = 200 /\ response.body # <<>>
    /\ \E r \in tables.dynamic_players :
          r.snapshot_date > response.body[1].snapshot_date

====
